---- MODULE Spec2Model ----
(***************************************************************************)
(* Model of the Lox scanner of src/src/lib.rs.                             *)
(*                                                                         *)
(* A character is a one-character string, a String or &str is a sequence   *)
(* of characters, Option<T> is a sequence of length 0 (None) or 1 (Some).  *)
(* The methods of Scanner take the scanner as the record `self` and        *)
(* return the record [self |-> the scanner afterwards, ret |-> the value   *)
(* returned].  One step of the state machine is one iteration of the loop  *)
(* of scan_tokens.                                                         *)
(***************************************************************************)
EXTENDS Integers, Sequences, FiniteSets, TLC

VARIABLES
    source,          \* the &str the Scanner was constructed over (never changes)
    chars,           \* Scanner.chars: the characters the Chars iterator has left
    buf,             \* Scanner.buf: the lookahead VecDeque
    tokens,          \* Scanner.tokens
    current_string,  \* Scanner.current_string
    line,            \* Scanner.line
    result,          \* what scan_tokens has returned: <<"Running">> until it does
    starts,          \* history: characters consumed when the call that pushed tokens[i] began
    ends,            \* history: characters consumed when tokens[i] was pushed
    calls,           \* history: number of calls of scan_token
    returned,        \* history: the characters next() has returned, when the
                     \* iterator is driven on its own (SpecBuf)
    call,            \* history: the last iterator method called and its return value
    pc,              \* where the process of main.rs is: "lib" when the scanner
                     \* is used as a library
    argc,            \* args.len() of main
    stdin_eof,       \* standard input has no more bytes to give
    reads,           \* history: lines read by run_prompt
    stdout,          \* what the process has written to standard output
    stderr,          \* what the process has written to standard error
    exit_code        \* the exit code, None while the process runs

scanVars == <<source, chars, buf, tokens, current_string, line, result, starts, ends, calls>>

iterVars == <<returned, call>>

cliVars == <<pc, argc, stdin_eof, reads, stdout, stderr, exit_code>>

vars == <<scanVars, iterVars, cliVars>>

\* ------------------------------------------------------------------ bounds

\* Longest source text explored.
MaxLen == 4

\* Longest file, and longest prompt line without its newline, given to the
\* process of main.rs.
MaxCliLen == 2

\* Most lines read from the prompt.
MaxLines == 2

\* Longest source text of whitespace and comments explored.
MaxCommentLen == 5

\* ------------------------------------------------------------ characters

None == <<>>
Some(x) == <<x>>

NL == "\n"
QUOTE == "\""

Digits == {"0", "1", "2", "3", "4", "5", "6", "7", "8", "9"}

Lower == {"a", "b", "c", "d", "e", "f", "g", "h", "i", "j", "k", "l", "m",
          "n", "o", "p", "q", "r", "s", "t", "u", "v", "w", "x", "y", "z"}

Upper == {"A", "B", "C", "D", "E", "F", "G", "H", "I", "J", "K", "L", "M",
          "N", "O", "P", "Q", "R", "S", "T", "U", "V", "W", "X", "Y", "Z"}

\* 'a'..='z' | 'A'..='Z' | '_'
IsAlpha(c) == c \in Lower \cup Upper \cup {"_"}

\* '0'..='9'
IsDigit(c) == c \in Digits

\* 'a'..='z' | 'A'..='Z' | '_' | '0'..='9'
IsAlphaNumeric(c) == IsAlpha(c) \/ IsDigit(c)

\* number of newline characters of s
CountNL(s) == Cardinality({i \in 1..Len(s) : s[i] = NL})

\* --------------------------------------------------------------- tokens

\* A TokenType is a tuple: <<name>>, or <<"NUMBER", value>> for NUMBER(f64).
NUMBER(v) == <<"NUMBER", v>>

to_keyword(s) ==
    CASE s = <<"a", "n", "d">> -> Some(<<"AND">>)
      [] s = <<"c", "l", "a", "s", "s">> -> Some(<<"CLASS">>)
      [] s = <<"e", "l", "s", "e">> -> Some(<<"ELSE">>)
      [] s = <<"f", "a", "l", "s", "e">> -> Some(<<"FALSE">>)
      [] s = <<"f", "u", "n">> -> Some(<<"FUN">>)
      [] s = <<"f", "o", "r">> -> Some(<<"FOR">>)
      [] s = <<"i", "f">> -> Some(<<"IF">>)
      [] s = <<"n", "i", "l">> -> Some(<<"NIL">>)
      [] s = <<"o", "r">> -> Some(<<"OR">>)
      [] s = <<"p", "r", "i", "n", "t">> -> Some(<<"PRINT">>)
      [] s = <<"r", "e", "t", "u", "r", "n">> -> Some(<<"RETURN">>)
      [] s = <<"s", "u", "p", "e", "r">> -> Some(<<"SUPER">>)
      [] s = <<"t", "h", "i", "s">> -> Some(<<"THIS">>)
      [] s = <<"t", "r", "u", "e">> -> Some(<<"TRUE">>)
      [] s = <<"v", "a", "r">> -> Some(<<"VAR">>)
      [] s = <<"w", "h", "i", "l", "e">> -> Some(<<"WHILE">>)
      [] OTHER -> None

Token(token_type, lexeme, ln) ==
    [token_type |-> token_type, lexeme |-> lexeme, line |-> ln]

\* ------------------------------------------------- str::parse::<f64>()

DigitVal(c) ==
    CASE c = "0" -> 0 [] c = "1" -> 1 [] c = "2" -> 2 [] c = "3" -> 3
      [] c = "4" -> 4 [] c = "5" -> 5 [] c = "6" -> 6 [] c = "7" -> 7
      [] c = "8" -> 8 [] c = "9" -> 9

RECURSIVE DecVal(_)
DecVal(s) ==
    IF s = <<>> THEN 0
    ELSE 10 * DecVal(SubSeq(s, 1, Len(s) - 1)) + DigitVal(s[Len(s)])

RECURSIVE StripZeros(_)
StripZeros(s) ==
    IF s # <<>> /\ s[Len(s)] = "0" THEN StripZeros(SubSeq(s, 1, Len(s) - 1))
    ELSE s

DotAt(s) == {i \in 1..Len(s) : s[i] = "."}

AllDigits(s) == \A i \in 1..Len(s) : IsDigit(s[i])

\* The decimal forms of the grammar of f64's FromStr: Digit+ | Digit+ '.' Digit*
\* | Digit* '.' Digit+.  (The sign, exponent, inf and nan forms need one of
\* '+', '-' or a letter, which number() never accumulates.)
IsDecimal(s) ==
    \/ s # <<>> /\ AllDigits(s)
    \/ \E d \in DotAt(s) :
          /\ AllDigits(SubSeq(s, 1, d - 1))
          /\ AllDigits(SubSeq(s, d + 1, Len(s)))
          /\ Len(s) > 1

\* The value parsed: the decimal m / 10^e with no trailing zero in the fraction,
\* so that "1.10" and "1.1" are the same value and "1.1" and "11" are not.
DecimalValue(s) ==
    IF DotAt(s) = {} THEN [m |-> DecVal(s), e |-> 0]
    ELSE LET d == CHOOSE i \in DotAt(s) : TRUE
             frac == StripZeros(SubSeq(s, d + 1, Len(s)))
         IN  [m |-> DecVal(SubSeq(s, 1, d - 1) \o frac), e |-> Len(frac)]

\* Result<f64, ParseFloatError>
parse_f64(s) ==
    IF IsDecimal(s) THEN <<"Ok", DecimalValue(s)>> ELSE <<"Err">>

\* ------------------------------------------------- the lookahead iterator

Ret(self, ret) == [self |-> self, ret |-> ret]

\* Chars::next on self.chars
chars_next(self) ==
    IF self.chars = <<>> THEN Ret(self, None)
    ELSE Ret([self EXCEPT !.chars = Tail(@)], Some(Head(self.chars)))

\* next() reading the source and leaving the lookahead buffer alone
next_mut(self) == chars_next(self)

\* Iterator::next for Scanner
next(self) ==
    IF self.buf = <<>> THEN chars_next(self)
    ELSE Ret([self EXCEPT !.buf = Tail(@)], Some(Head(self.buf)))

peek(self) ==
    IF self.buf = <<>>
    THEN LET n == chars_next(self)
         IN  IF n.ret = None THEN Ret(n.self, None)
             ELSE Ret([n.self EXCEPT !.buf = Append(@, n.ret[1])], Some(n.ret[1]))
    ELSE Ret(self, Some(Head(self.buf)))

RECURSIVE peek_next(_)
peek_next(self) ==
    IF Len(self.buf) < 2
    THEN LET n == chars_next(self)
         IN  IF n.ret = None THEN Ret(n.self, None)
             ELSE peek_next([n.self EXCEPT !.buf = Append(@, n.ret[1])])
    ELSE Ret(self, Some(self.buf[2]))

\* ------------------------------------------------------------ the scanner

is_at_end(self) ==
    LET p == peek(self)
    IN  Ret(p.self, p.ret = None /\ p.self.buf = <<>>)

advance(self) ==
    LET n == next(self)
    IN  IF n.ret = None THEN Ret(n.self, None)
        ELSE Ret([n.self EXCEPT !.current_string = Append(@, n.ret[1])], n.ret)

add_token(self, token_type) ==
    [self EXCEPT !.tokens = Append(@, Token(token_type, self.current_string, self.line)),
                 !.current_string = <<>>]

match_char(self, expected) ==
    LET e == is_at_end(self)
    IN  IF e.ret THEN Ret(e.self, FALSE)
        ELSE LET p == peek(e.self)
             IN  IF p.ret = None THEN Ret(p.self, FALSE)
                 ELSE IF p.ret[1] = expected
                      THEN Ret(advance(p.self).self, TRUE)
                      ELSE Ret(p.self, FALSE)

\* self.peek().filter(|c| pred(c)).is_some(), for the character sets the code tests
PeekIn(self, S) ==
    LET p == peek(self)
    IN  Ret(p.self, p.ret # None /\ p.ret[1] \in S)

PeekNotEq(self, c) ==
    LET p == peek(self)
    IN  Ret(p.self, p.ret # None /\ p.ret[1] # c)

PeekNextIn(self, S) ==
    LET p == peek_next(self)
    IN  Ret(p.self, p.ret # None /\ p.ret[1] \in S)

Ok == <<"Ok">>
ParseError(ln, message) == <<"Err", ln, message>>
Panic(message) == <<"Panic", message>>

\* while self.peek().filter(|c| matches!(*c, ...)).is_some() { self.advance(); }
RECURSIVE AdvanceWhileIn(_, _)
AdvanceWhileIn(self, S) ==
    LET p == PeekIn(self, S)
    IN  IF p.ret THEN AdvanceWhileIn(advance(p.self).self, S) ELSE p.self

\* the loop of the comment arm consuming the newline that ends the comment
RECURSIVE comment_loop_mut(_)
comment_loop_mut(self) ==
    LET p == peek(self)
    IN  IF p.ret = None THEN p.self
        ELSE IF p.ret[1] = NL THEN advance(p.self).self
        ELSE comment_loop_mut(advance(p.self).self)

\* the loop of the comment arm
RECURSIVE comment_loop(_)
comment_loop(self) ==
    LET p == PeekNotEq(self, NL)
    IN  IF p.ret THEN comment_loop(advance(p.self).self) ELSE p.self

\* identifier() with a loop over letters alone
identifier_mut(self) ==
    LET s == AdvanceWhileIn(self, Lower \cup Upper)
        k == to_keyword(s.current_string)
    IN  IF k # None THEN Ret(add_token(s, k[1]), Ok)
        ELSE Ret(add_token(s, <<"IDENTIFIER">>), Ok)

identifier(self) ==
    LET s == AdvanceWhileIn(self, Lower \cup Upper \cup {"_"} \cup Digits)
        k == to_keyword(s.current_string)
    IN  IF k # None THEN Ret(add_token(s, k[1]), Ok)
        ELSE Ret(add_token(s, <<"IDENTIFIER">>), Ok)

\* the condition of the fractional part: && does not call peek_next unless
\* peek is '.'
has_fraction(self) ==
    LET p == PeekIn(self, {"."})
    IN  IF p.ret THEN PeekNextIn(p.self, Digits) ELSE Ret(p.self, FALSE)

number_parse(self) ==
    LET num == parse_f64(self.current_string)
    IN  IF num[1] = "Ok" THEN Ret(add_token(self, NUMBER(num[2])), Ok)
        ELSE Ret(self, Panic("current_string not f64"))

number(self) ==
    LET s1 == AdvanceWhileIn(self, Digits)
        f == has_fraction(s1)
        s2 == IF f.ret THEN AdvanceWhileIn(advance(f.self).self, Digits)
              ELSE f.self
    IN  number_parse(s2)

\* string_step without the line count of a newline inside the string
string_step_mut(self) == advance(self).self

\* the body of the loop of string()
string_step(self) ==
    LET n == PeekIn(self, {NL})
        s == IF n.ret THEN [n.self EXCEPT !.line = @ + 1] ELSE n.self
    IN  advance(s).self

RECURSIVE string_loop(_)
string_loop(self) ==
    LET p == PeekNotEq(self, QUOTE)
    IN  IF p.ret THEN string_loop(string_step(p.self)) ELSE p.self

\* self.current_string[1..self.current_string.len() - 1]
trim_quotes(s) == SubSeq(s, 2, Len(s) - 1)

\* string_close tagging the token with the line of the opening quote
string_close_mut(self) ==
    LET a == advance(self).self
        opened == a.line - CountNL(a.current_string)
    IN  Ret([add_token([a EXCEPT !.current_string = trim_quotes(@), !.line = opened],
                       <<"STRING">>) EXCEPT !.line = a.line], Ok)

string_close(self) ==
    LET a == advance(self).self
    IN  Ret(add_token([a EXCEPT !.current_string = trim_quotes(@)], <<"STRING">>), Ok)

\* string() testing for the end of input after the closing quote is consumed
string_mut(self) ==
    LET s == string_loop(self)
        e == is_at_end(advance(s).self)
    IN  IF e.ret THEN Ret(e.self, ParseError(e.self.line, "Unterminated string."))
        ELSE Ret(add_token([e.self EXCEPT !.current_string = trim_quotes(@)],
                           <<"STRING">>), Ok)

string(self) ==
    LET s == string_loop(self)
        e == is_at_end(s)
    IN  IF e.ret THEN Ret(e.self, ParseError(e.self.line, "Unterminated string."))
        ELSE string_close(e.self)

\* the arms of '!', '=', '<', '>'
one_or_two(self, one, two) ==
    LET m == match_char(self, "=")
    IN  Ret(add_token(m.self, IF m.ret THEN two ELSE one), Ok)

\* the '/' arm taking "//" alone as the comment
slash_mut(self) ==
    LET m == match_char(self, "/")
    IN  IF m.ret THEN Ret([m.self EXCEPT !.current_string = <<>>], Ok)
        ELSE Ret(add_token(m.self, <<"SLASH">>), Ok)

slash(self) ==
    LET m == match_char(self, "/")
    IN  IF m.ret THEN Ret([comment_loop(m.self) EXCEPT !.current_string = <<>>], Ok)
        ELSE Ret(add_token(m.self, <<"SLASH">>), Ok)

whitespace(self) == Ret([self EXCEPT !.current_string = <<>>], Ok)

newline(self) == Ret([self EXCEPT !.line = @ + 1], Ok)

\* the last arm skipping the character instead of failing
unexpected_mut(self) == Ret([self EXCEPT !.current_string = <<>>], Ok)

unexpected(self) == Ret(self, ParseError(self.line, "Unexpected character."))

scan_token(self) ==
    LET a == advance(self)
        s == a.self
    IN  IF a.ret = None THEN Ret(s, Panic("Reading past end"))
        ELSE LET c == a.ret[1]
             IN  CASE c = "(" -> Ret(add_token(s, <<"LEFT_PAREN">>), Ok)
                   [] c = ")" -> Ret(add_token(s, <<"RIGHT_PAREN">>), Ok)
                   [] c = "{" -> Ret(add_token(s, <<"LEFT_BRACE">>), Ok)
                   [] c = "}" -> Ret(add_token(s, <<"RIGHT_BRACE">>), Ok)
                   [] c = "," -> Ret(add_token(s, <<"COMMA">>), Ok)
                   [] c = "." -> Ret(add_token(s, <<"DOT">>), Ok)
                   [] c = "-" -> Ret(add_token(s, <<"MINUS">>), Ok)
                   [] c = "+" -> Ret(add_token(s, <<"PLUS">>), Ok)
                   [] c = ";" -> Ret(add_token(s, <<"SEMICOLON">>), Ok)
                   [] c = "*" -> Ret(add_token(s, <<"STAR">>), Ok)
                   [] c = "!" -> one_or_two(s, <<"BANG">>, <<"BANG_EQUAL">>)
                   [] c = "=" -> one_or_two(s, <<"EQUAL">>, <<"EQUAL_EQUAL">>)
                   [] c = "<" -> one_or_two(s, <<"LESS">>, <<"LESS_EQUAL">>)
                   [] c = ">" -> one_or_two(s, <<"GREATER">>, <<"GREATER_EQUAL">>)
                   [] c = "/" -> slash(s)
                   [] c \in {" ", "\r", "\t"} -> whitespace(s)
                   [] c = NL -> newline(s)
                   [] c = QUOTE -> string(s)
                   [] IsDigit(c) -> number(s)
                   [] IsAlpha(c) -> identifier(s)
                   [] OTHER -> unexpected(s)

\* the EOF token taking its lexeme from the accumulator
eof_tokens_mut(self) ==
    Append(self.tokens, Token(<<"EOF">>, self.current_string, self.line))

\* the tokens scan_tokens returns once the loop has ended
eof_tokens(self) == Append(self.tokens, Token(<<"EOF">>, <<>>, self.line))

\* ---------------------------------------------------------- state machine

Self ==
    [chars |-> chars, buf |-> buf, tokens |-> tokens,
     current_string |-> current_string, line |-> line]

\* characters of the source that next() has returned
Consumed == Len(source) - Len(chars) - Len(buf)

SeqsUpTo(A, n) == UNION {[1..k -> A] : k \in 0..n}

\* the iterator is not driven on its own
IterIdle == returned = <<>> /\ call = <<>>

\* no process of main.rs: the scanner is used as a library
CliIdle ==
    /\ pc = "lib"
    /\ argc = 0
    /\ stdin_eof = FALSE
    /\ reads = 0
    /\ stdout = <<>>
    /\ stderr = <<>>
    /\ exit_code = None

\* Scanner::new(source), for every source over A of at most n characters
InitOverLen(A, n) ==
    /\ source \in SeqsUpTo(A, n)
    /\ chars = source
    /\ buf = <<>>
    /\ tokens = <<>>
    /\ current_string = <<>>
    /\ line = 1
    /\ result = <<"Running">>
    /\ starts = <<>>
    /\ ends = <<>>
    /\ calls = 0
    /\ IterIdle
    /\ CliIdle

\* Scanner::new(source)
InitOver(A) ==
    /\ source \in SeqsUpTo(A, MaxLen)
    /\ chars = source
    /\ buf = <<>>
    /\ tokens = <<>>
    /\ current_string = <<>>
    /\ line = 1
    /\ result = <<"Running">>
    /\ starts = <<>>
    /\ ends = <<>>
    /\ calls = 0
    /\ IterIdle
    /\ CliIdle

Install(s) ==
    /\ chars' = s.chars
    /\ buf' = s.buf
    /\ tokens' = s.tokens
    /\ current_string' = s.current_string
    /\ line' = s.line

\* one iteration of the loop of scan_tokens: is_at_end() is false, scan_token()?
ScanLoopBody ==
    /\ result = <<"Running">>
    /\ LET e == is_at_end(Self)
       IN  /\ ~e.ret
           /\ LET r == scan_token(e.self)
                  pushed == Len(r.self.tokens) > Len(tokens)
                  after == Len(source) - Len(r.self.chars) - Len(r.self.buf)
              IN  /\ Install(r.self)
                  /\ result' = IF r.ret = Ok THEN <<"Running">> ELSE r.ret
                  /\ starts' = IF pushed THEN Append(starts, Consumed) ELSE starts
                  /\ ends' = IF pushed THEN Append(ends, after) ELSE ends
    /\ calls' = calls + 1
    /\ UNCHANGED <<source, iterVars, cliVars>>

\* the loop ends: is_at_end() is true, the EOF token is pushed, Ok(self.tokens)
ScanLoopExit ==
    /\ result = <<"Running">>
    /\ LET e == is_at_end(Self)
       IN  /\ e.ret
           /\ Install([e.self EXCEPT !.tokens = eof_tokens(e.self)])
           /\ result' = <<"Ok", eof_tokens(e.self)>>
           /\ starts' = Append(starts, Consumed)
           /\ ends' = Append(ends, Consumed)
    /\ UNCHANGED <<source, calls, iterVars, cliVars>>

Next == ScanLoopBody \/ ScanLoopExit

\* sources over a mix of every kind of lexical element
Alphabet == {NL, " ", QUOTE, "/", "1", ".", "o", "r", "@", "=", "\\"}

Init == InitOver(Alphabet)

Spec == Init /\ [][Next]_vars

\* sources over the one-or-two character operators
OpAlphabet == {"!", "=", "<", ">", NL, "1"}

InitOps == InitOver(OpAlphabet)

SpecOps == InitOps /\ [][Next]_vars

\* sources of whitespace, comments and what a comment may hold
CommentAlphabet == {" ", "\t", "\r", NL, "/", QUOTE, "@"}

InitComments == InitOverLen(CommentAlphabet, MaxCommentLen)

SpecComments == InitComments /\ [][Next]_vars

\* sources of identifier characters around the keyword "or", space and newline
IdentAlphabet == {"o", "r", "O", "_", "1", " ", NL}

InitIdent == InitOver(IdentAlphabet)

SpecIdent == InitIdent /\ [][Next]_vars

\* The iterator driven on its own: any interleaving of next, peek and peek_next.

CallNext ==
    /\ pc = "lib"
    /\ LET r == next(Self)
       IN  /\ Install(r.self)
           /\ returned' = IF r.ret = None THEN returned ELSE Append(returned, r.ret[1])
           /\ call' = <<"next", r.ret>>
    /\ UNCHANGED <<source, result, starts, ends, calls, cliVars>>

CallPeek ==
    /\ pc = "lib"
    /\ LET r == peek(Self)
       IN  /\ Install(r.self)
           /\ call' = <<"peek", r.ret>>
    /\ UNCHANGED <<source, result, starts, ends, calls, returned, cliVars>>

CallPeekNext ==
    /\ pc = "lib"
    /\ LET r == peek_next(Self)
       IN  /\ Install(r.self)
           /\ call' = <<"peek_next", r.ret>>
    /\ UNCHANGED <<source, result, starts, ends, calls, returned, cliVars>>

NextBuf == CallNext \/ CallPeek \/ CallPeekNext

BufAlphabet == {"a", "b", "c"}

InitBuf == InitOver(BufAlphabet)

SpecBuf == InitBuf /\ [][NextBuf]_vars

\* The process of main.rs.

CliAlphabet == {"1", "@", "=", NL}

\* env::args().len(): the program name and the arguments
ArgCounts == 1..3

\* no Scanner exists
NoScanner ==
    /\ source = <<>>
    /\ chars = <<>>
    /\ buf = <<>>
    /\ tokens = <<>>
    /\ current_string = <<>>
    /\ line = 1
    /\ result = <<"None">>
    /\ starts = <<>>
    /\ ends = <<>>
    /\ calls = 0

InitCli ==
    /\ NoScanner
    /\ IterIdle
    /\ pc = "main"
    /\ argc \in ArgCounts
    /\ stdin_eof = FALSE
    /\ reads = 0
    /\ stdout = <<>>
    /\ stderr = <<>>
    /\ exit_code = None

\* Scanner::new(&source) in run, scan_tokens about to be called
NewScanner(src) ==
    /\ source' = src
    /\ chars' = src
    /\ buf' = <<>>
    /\ tokens' = <<>>
    /\ current_string' = <<>>
    /\ line' = 1
    /\ result' = <<"Running">>
    /\ starts' = <<>>
    /\ ends' = <<>>
    /\ calls' = 0

\* process::exit(code), or the return of main (code 0), or a panic (code 101)
Exit(code) == pc' = "exited" /\ exit_code' = Some(code)

Main ==
    /\ pc = "main"
    /\ IF argc = 1
       THEN pc' = "run_prompt" /\ UNCHANGED <<stdout, exit_code>>
       ELSE IF argc = 2
       THEN pc' = "run_file" /\ UNCHANGED <<stdout, exit_code>>
       ELSE stdout' = Append(stdout, <<"Usage: rlox [script]">>) /\ Exit(0)
    /\ UNCHANGED <<scanVars, iterVars, argc, stdin_eof, reads, stderr>>

\* run_file up to the call of run: the file cannot be read, or run(code) begins
RunFile ==
    /\ pc = "run_file"
    /\ \/ /\ stderr' = Append(stderr, <<"Unable to read file">>)
          /\ Exit(74)
          /\ UNCHANGED scanVars
       \/ /\ \E code \in SeqsUpTo(CliAlphabet, MaxCliLen) : NewScanner(code)
          /\ pc' = "run"
          /\ UNCHANGED <<stderr, exit_code>>
    /\ UNCHANGED <<iterVars, argc, stdin_eof, reads, stdout>>

\* the lines read_line can give: text without a newline, then a newline, or,
\* when the input ends without one, text that is not empty
PromptLines ==
    {body \o <<NL>> : body \in SeqsUpTo(CliAlphabet \ {NL}, MaxCliLen)}
        \cup (SeqsUpTo(CliAlphabet \ {NL}, MaxCliLen) \ {<<>>})

\* one iteration of the loop of run_prompt up to the call of run: the prompt is
\* printed, then reading fails, or 0 bytes are read and the loop ends, or
\* run(line) begins
RunPrompt ==
    /\ pc = "run_prompt"
    /\ stdout' = Append(stdout, <<"> ">>)
    /\ \/ /\ stderr' = Append(stderr, <<"panic", "Unable to read line from prompt">>)
          /\ Exit(101)
          /\ UNCHANGED <<scanVars, stdin_eof, reads>>
       \/ /\ Exit(0)
          /\ stdin_eof' = TRUE
          /\ UNCHANGED <<scanVars, reads, stderr>>
       \/ /\ ~stdin_eof
          /\ reads < MaxLines
          /\ \E ln \in PromptLines :
                /\ NewScanner(ln)
                /\ stdin_eof' = (ln[Len(ln)] # NL)
          /\ reads' = reads + 1
          /\ pc' = "run"
          /\ UNCHANGED <<stderr, exit_code>>
    /\ UNCHANGED <<iterVars, argc>>

\* println!("{token:?}") for every token
Printed(toks) == [i \in 1..Len(toks) |-> <<"token", toks[i]>>]

\* run after scan_tokens returned Ok, and the return to run_file or run_prompt
RunOk ==
    /\ pc = "run"
    /\ result[1] = "Ok"
    /\ stdout' = stdout \o Printed(result[2])
    /\ IF argc = 2 THEN Exit(0) ELSE pc' = "run_prompt" /\ UNCHANGED exit_code
    /\ UNCHANGED <<scanVars, iterVars, argc, stdin_eof, reads, stderr>>

\* RunErr going on with the next prompt line after the report
RunErr_mut ==
    /\ pc = "run"
    /\ result[1] = "Err"
    /\ stderr' = Append(stderr, <<"error", result[2], result[3]>>)
    /\ IF argc = 2 THEN Exit(65) ELSE pc' = "run_prompt" /\ UNCHANGED exit_code
    /\ UNCHANGED <<scanVars, iterVars, argc, stdin_eof, reads, stdout>>

\* run after scan_tokens returned Err: the ? returns it to run_file or
\* run_prompt, which call error_report and exit
RunErr ==
    /\ pc = "run"
    /\ result[1] = "Err"
    /\ stderr' = Append(stderr, <<"error", result[2], result[3]>>)
    /\ Exit(65)
    /\ UNCHANGED <<scanVars, iterVars, argc, stdin_eof, reads, stdout>>

\* a panic inside scan_tokens ends the process
RunPanic ==
    /\ pc = "run"
    /\ result[1] = "Panic"
    /\ stderr' = Append(stderr, <<"panic", result[2]>>)
    /\ Exit(101)
    /\ UNCHANGED <<scanVars, iterVars, argc, stdin_eof, reads, stdout>>

NextCli ==
    \/ Main
    \/ RunFile
    \/ RunPrompt
    \/ ScanLoopBody
    \/ ScanLoopExit
    \/ RunOk
    \/ RunErr
    \/ RunPanic

SpecCli == InitCli /\ [][NextCli]_vars

\* ------------------------------------------------------------------ claims

\* the source characters consumed by the call of scan_token that pushed tokens[i]
Span(i) == SubSeq(source, starts[i] + 1, ends[i])

Kind(i) == tokens[i].token_type[1]

Succeeded == result[1] = "Ok"

\* scan_token is about to be called, and its first character is source[Consumed + 1]
AtChar == result = <<"Running">> /\ Consumed < Len(source)

NextChar == source[Consumed + 1]

\* every character scan_token has an arm for, other than the last one
Recognised ==
    {"(", ")", "{", "}", ",", ".", "-", "+", ";", "*", "!", "=", "<", ">", "/",
     " ", "\r", "\t", NL, QUOTE} \cup Digits \cup Lower \cup Upper \cup {"_"}

\* C1: scan_tokens ends in Ok or in Err(ParseError) and in no other way: the
\* float parser never fails on the lexeme number() hands it, and advance() in
\* scan_token is never called on exhausted input.
C1_OkOrErrOnly == result[1] \in {"Running", "Ok", "Err"}

\* C2: after a successful scan, the lexeme of every token other than STRING and
\* EOF is exactly the source characters that make up the token.
C2_LexemeIsSpan ==
    Succeeded =>
        \A i \in 1..Len(tokens) :
            Kind(i) \notin {"STRING", "EOF"} => tokens[i].lexeme = Span(i)

\* source[a + 1 .. b] is a maximal run of identifier characters that begins
\* with a letter or underscore
MaximalRun(a, b) ==
    /\ a < b
    /\ IsAlpha(source[a + 1])
    /\ \A j \in a + 1..b : IsAlphaNumeric(source[j])
    /\ a = 0 \/ ~IsAlphaNumeric(source[a])
    /\ b = Len(source) \/ ~IsAlphaNumeric(source[b + 1])

\* C3: the token emitted for a maximal run of identifier characters that spells
\* a keyword has that keyword's kind, whatever precedes or follows the run.
C3_KeywordKind ==
    \A i \in 1..Len(tokens) :
        (MaximalRun(starts[i], ends[i]) /\ to_keyword(Span(i)) # None)
            => tokens[i].token_type = to_keyword(Span(i))[1]

\* C4: a successful result is non-empty, ends with an EOF token of empty lexeme,
\* and holds no other EOF token.
C4_EofLast ==
    Succeeded =>
        LET t == result[2]
        IN  /\ Len(t) >= 1
            /\ t[Len(t)].token_type = <<"EOF">>
            /\ t[Len(t)].lexeme = <<>>
            /\ \A i \in 1..Len(t) - 1 : t[i].token_type # <<"EOF">>

\* C4 witness: a successful scan of more than the EOF token whose accumulator
\* was not empty when the input was exhausted.
C4_Witness == Succeeded /\ current_string # <<>> /\ Len(result[2]) > 1

\* C5: after a successful scan of a source with k newlines, the lines of the
\* tokens never decrease and the EOF token has line k + 1.
C5_LinesMonotone ==
    Succeeded =>
        LET t == result[2]
        IN  /\ \A i \in 1..Len(t) - 1 : t[i].line <= t[i + 1].line
            /\ t[Len(t)].line = CountNL(source) + 1

\* C5 witness: a successful scan with a newline inside a string literal and a
\* newline outside of it.
C5_Witness ==
    /\ Succeeded
    /\ \E i \in 1..Len(tokens) : Kind(i) = "STRING" /\ CountNL(tokens[i].lexeme) = 1
    /\ CountNL(source) = 2

\* C6: the line of every token is 1 plus the number of newlines of the source
\* before the token's last character; for the EOF token, which has no
\* character, before the end of the source.
C6_TokenLine ==
    \A i \in 1..Len(tokens) :
        tokens[i].line =
            IF Kind(i) = "EOF" THEN 1 + CountNL(source)
            ELSE 1 + CountNL(SubSeq(source, 1, ends[i] - 1))

\* C6 witness: a string token whose line is greater than that of its opening
\* quote.
C6_Witness ==
    \E i \in 1..Len(tokens) :
        /\ Kind(i) = "STRING"
        /\ source[starts[i] + 1] = QUOTE
        /\ CountNL(Span(i)) >= 1
        /\ tokens[i].line = 1 + CountNL(SubSeq(source, 1, starts[i])) + CountNL(Span(i))

\* C7: the lexeme of a STRING token is exactly the characters between the
\* opening and the closing quote, whatever precedes the opening quote.
C7_StringLexeme ==
    \A i \in 1..Len(tokens) :
        Kind(i) = "STRING" => tokens[i].lexeme = SubSeq(source, starts[i] + 2, ends[i] - 1)

\* C8: when scan_token begins at a character it has no arm for, scan_tokens
\* returns Err "Unexpected character." with the line 1 plus the newlines
\* consumed before it, and nothing after that character has been taken from
\* the source.
C8_UnexpectedCharacter ==
    [][(AtChar /\ NextChar \notin Recognised) =>
          /\ result' = <<"Err", 1 + CountNL(SubSeq(source, 1, Consumed)),
                         "Unexpected character.">>
          /\ buf' = <<>>
          /\ chars' = SubSeq(source, Consumed + 2, Len(source))]_vars

\* C8 witness: the error on a line after the first, with a token scanned before
\* the character and source text left after it.
C8_Witness ==
    /\ result[1] = "Err"
    /\ result[3] = "Unexpected character."
    /\ result[2] > 1
    /\ tokens # <<>>
    /\ chars # <<>>

\* no quote character after position p of the source
NoQuoteAfter(p) == \A j \in p + 1..Len(source) : source[j] # QUOTE

\* C9: when scan_token begins at a quote, scan_tokens returns Err "Unterminated
\* string." with the line 1 plus the newlines of the whole source if no further
\* quote follows, and no error if one does (at the last character included).
C9_UnterminatedString ==
    [][(AtChar /\ NextChar = QUOTE) =>
          IF NoQuoteAfter(Consumed + 1)
          THEN result' = <<"Err", 1 + CountNL(source), "Unterminated string.">>
          ELSE result' = <<"Running">> /\ Len(tokens') = Len(tokens) + 1]_vars

\* C9 witness: an unterminated string with a newline inside, after a newline
\* and a token outside of it.
C9_Witness ==
    /\ result = <<"Err", 3, "Unterminated string.">>
    /\ tokens # <<>>
    /\ QUOTE \in {current_string[j] : j \in 1..Len(current_string)}
    /\ current_string[Len(current_string)] = NL

\* C9 witness: a string closed by the last character of the source.
C9_ClosedAtEnd ==
    /\ Succeeded
    /\ Len(source) >= 2
    /\ source[Len(source)] = QUOTE
    /\ Kind(Len(tokens) - 1) = "STRING"

OneKind(c) ==
    CASE c = "!" -> <<"BANG">> [] c = "=" -> <<"EQUAL">>
      [] c = "<" -> <<"LESS">> [] c = ">" -> <<"GREATER">>

TwoKind(c) ==
    CASE c = "!" -> <<"BANG_EQUAL">> [] c = "=" -> <<"EQUAL_EQUAL">>
      [] c = "<" -> <<"LESS_EQUAL">> [] c = ">" -> <<"GREATER_EQUAL">>

\* C10: a token that begins with '!', '=', '<' or '>' is the two-character
\* token, with a two-character lexeme, if the next source character is '=' (which
\* is then consumed), and the one-character token otherwise (the next character
\* left for the next token).
C10_OneOrTwo ==
    \A i \in 1..Len(tokens) :
        (Kind(i) # "EOF" /\ source[starts[i] + 1] \in {"!", "=", "<", ">"}) =>
            LET c == source[starts[i] + 1]
                p == starts[i] + 2
            IN  IF p <= Len(source) /\ source[p] = "="
                THEN /\ tokens[i].token_type = TwoKind(c)
                     /\ Len(tokens[i].lexeme) = 2
                     /\ ends[i] = starts[i] + 2
                ELSE /\ tokens[i].token_type = OneKind(c)
                     /\ ends[i] = starts[i] + 1

\* the end of the maximal run of characters of S that begins after position a
RunEnd(a, S) ==
    CHOOSE b \in a..Len(source) :
        /\ \A j \in a + 1..b : source[j] \in S
        /\ b = Len(source) \/ source[b + 1] \notin S

\* a '.' follows the digit run that begins after position a
DotFollows(a) ==
    LET b == RunEnd(a, Digits) IN b < Len(source) /\ source[b + 1] = "."

\* a '.' and a digit follow the digit run that begins after position a
FractionFollows(a) ==
    LET b == RunEnd(a, Digits)
    IN  DotFollows(a) /\ b + 2 <= Len(source) /\ IsDigit(source[b + 2])

\* the end of the number literal that begins after position a
NumberEnd(a) ==
    IF FractionFollows(a) THEN RunEnd(RunEnd(a, Digits) + 1, Digits)
    ELSE RunEnd(a, Digits)

\* C11: a digit run followed by '.' yields one NUMBER token: with the '.' and
\* the following digit run as its lexeme if a digit follows the '.', and with the
\* first digit run alone, immediately followed by a DOT token, if not; no
\* character is lost or duplicated.
C11_NumberThenDot ==
    /\ [][(AtChar /\ IsDigit(NextChar) /\ DotFollows(Consumed)) =>
            /\ Len(tokens') = Len(tokens) + 1
            /\ tokens'[Len(tokens')].token_type[1] = "NUMBER"
            /\ tokens'[Len(tokens')].lexeme = SubSeq(source, Consumed + 1, NumberEnd(Consumed))
            /\ Consumed' = NumberEnd(Consumed)]_vars
    /\ [](\A i \in 1..Len(tokens) - 1 :
            (Kind(i) = "NUMBER" /\ ends[i] < Len(source) /\ source[ends[i] + 1] = ".") =>
                /\ tokens[i + 1] = Token(<<"DOT">>, <<".">>, tokens[i].line)
                /\ starts[i + 1] = ends[i]
                /\ ends[i + 1] = ends[i] + 1)

\* C11 without the newline left in the accumulator: the same, for a number
\* scanned with an empty accumulator.
C11_FromEmptyAccumulator ==
    /\ [][(AtChar /\ IsDigit(NextChar) /\ DotFollows(Consumed) /\ current_string = <<>>) =>
            /\ Len(tokens') = Len(tokens) + 1
            /\ tokens'[Len(tokens')].token_type[1] = "NUMBER"
            /\ tokens'[Len(tokens')].lexeme = SubSeq(source, Consumed + 1, NumberEnd(Consumed))
            /\ Consumed' = NumberEnd(Consumed)]_vars
    /\ [](\A i \in 1..Len(tokens) - 1 :
            (Kind(i) = "NUMBER" /\ ends[i] < Len(source) /\ source[ends[i] + 1] = ".") =>
                /\ tokens[i + 1] = Token(<<"DOT">>, <<".">>, tokens[i].line)
                /\ starts[i + 1] = ends[i]
                /\ ends[i + 1] = ends[i] + 1)

\* the last character of the line that position p is on
LineEnd(p) ==
    CHOOSE b \in p..Len(source) :
        /\ \A j \in p..b : source[j] # NL
        /\ b = Len(source) \/ source[b + 1] = NL

\* a line comment begins at position p
CommentAt(p) ==
    /\ p + 1 <= Len(source)
    /\ source[p] = "/"
    /\ source[p + 1] = "/"

\* the source from position p on is spaces, tabs, carriage returns, newlines
\* and line comments
RECURSIVE BlankFrom(_)
BlankFrom(p) ==
    IF p > Len(source) THEN TRUE
    ELSE IF source[p] \in {" ", "\t", "\r", NL} THEN BlankFrom(p + 1)
    ELSE IF CommentAt(p) THEN BlankFrom(LineEnd(p) + 1)
    ELSE FALSE

\* C12: the scan of a source of whitespace and line comments only never fails,
\* pushes no token while it runs and returns exactly the EOF token, whose line
\* is 1 plus the number of newlines of the source.
C12_BlankSource ==
    BlankFrom(1) =>
        /\ result[1] \in {"Running", "Ok"}
        /\ result[1] = "Running" => tokens = <<>>
        /\ result[1] = "Ok" =>
              result[2] = <<Token(<<"EOF">>, <<>>, 1 + CountNL(source))>>

\* C12 witness: the successful scan of a source with a tab, a comment that is
\* not empty and a newline.
C12_Witness ==
    /\ Succeeded
    /\ BlankFrom(1)
    /\ CountNL(source) >= 1
    /\ \E p \in 1..Len(source) : source[p] = "\t"
    /\ \E p \in 1..Len(source) : CommentAt(p) /\ LineEnd(p) > p + 1

\* C13: the call of scan_token that begins at "//" consumes up to, and not
\* including, the next newline or the end of input, pushes no token, returns no
\* error and leaves the line alone; the call that begins at a newline adds one
\* to the line; so that the line of a token is 1 plus the number of newlines
\* before it.
C13_LineComment ==
    /\ [][(AtChar /\ CommentAt(Consumed + 1)) =>
            /\ tokens' = tokens
            /\ result' = <<"Running">>
            /\ line' = line
            /\ Consumed' = LineEnd(Consumed + 1)]_vars
    /\ [][(AtChar /\ NextChar = NL) =>
            /\ tokens' = tokens
            /\ result' = <<"Running">>
            /\ line' = line + 1
            /\ Consumed' = Consumed + 1]_vars
    /\ [](\A i \in 1..Len(tokens) :
            Kind(i) \notin {"STRING", "EOF"} =>
                tokens[i].line = 1 + CountNL(SubSeq(source, 1, starts[i])))

\* C13 witness: a comment on line 1 that holds a quote or '@', and a token on
\* line 2.
C13_Witness ==
    /\ Len(source) >= 5
    /\ CommentAt(1)
    /\ source[3] \in {QUOTE, "@"}
    /\ Len(tokens) >= 1
    /\ Kind(1) = "SLASH"
    /\ tokens[1].line = 2

\* C15: each time scan_token is entered the accumulator is empty.
C15_AccumulatorEmpty == AtChar => current_string = <<>>

\* the keywords of the language: spelling and kind
KeywordTable ==
    {<<<<"a", "n", "d">>, "AND">>, <<<<"c", "l", "a", "s", "s">>, "CLASS">>,
     <<<<"e", "l", "s", "e">>, "ELSE">>, <<<<"f", "a", "l", "s", "e">>, "FALSE">>,
     <<<<"f", "u", "n">>, "FUN">>, <<<<"f", "o", "r">>, "FOR">>,
     <<<<"i", "f">>, "IF">>, <<<<"n", "i", "l">>, "NIL">>, <<<<"o", "r">>, "OR">>,
     <<<<"p", "r", "i", "n", "t">>, "PRINT">>,
     <<<<"r", "e", "t", "u", "r", "n">>, "RETURN">>,
     <<<<"s", "u", "p", "e", "r">>, "SUPER">>, <<<<"t", "h", "i", "s">>, "THIS">>,
     <<<<"t", "r", "u", "e">>, "TRUE">>, <<<<"v", "a", "r">>, "VAR">>,
     <<<<"w", "h", "i", "l", "e">>, "WHILE">>}

IdentChars == Lower \cup Upper \cup Digits \cup {"_"}

\* the source is one identifier that is no keyword
SingleIdentifier ==
    /\ source # <<>>
    /\ IsAlpha(source[1])
    /\ \A j \in 1..Len(source) : source[j] \in IdentChars
    /\ \A kw \in KeywordTable : kw[1] # source

\* C16: the call of scan_token that begins at a letter or '_' pushes exactly one
\* token and consumes exactly the maximal run of identifier characters; the
\* token is IDENTIFIER unless the run is a keyword spelling, character for
\* character, and then it is IDENTIFIER or that keyword; the scan of a single
\* identifier that is no keyword returns [IDENTIFIER with the source as lexeme,
\* EOF].
C16_IdentifierRun ==
    /\ [][(AtChar /\ IsAlpha(NextChar)) =>
            LET e == RunEnd(Consumed, IdentChars)
                run == SubSeq(source, Consumed + 1, e)
            IN  /\ Len(tokens') = Len(tokens) + 1
                /\ result' = <<"Running">>
                /\ Consumed' = e
                /\ LET k == tokens'[Len(tokens')].token_type
                   IN  \/ k = <<"IDENTIFIER">>
                       \/ \E kw \in KeywordTable : kw[1] = run /\ k = <<kw[2]>>]_vars
    /\ []((SingleIdentifier /\ Succeeded) =>
            result[2] = <<Token(<<"IDENTIFIER">>, source, 1), Token(<<"EOF">>, <<>>, 1)>>)

\* C16 witness: IDENTIFIER tokens for a keyword followed by an identifier
\* character, a keyword in another case and a keyword after '_'.
C16_Witness ==
    \E i \in 1..Len(tokens) :
        /\ Kind(i) = "IDENTIFIER"
        /\ Span(i) \in {<<"o", "r", "1">>, <<"O", "r">>, <<"_", "o", "r">>}
        /\ tokens[i].lexeme = Span(i)

\* C18: every call of scan_token consumes at least one character, so there are
\* at most as many calls as characters; scan_tokens ends in Ok or Err, and on Ok
\* every character of the source is consumed.
C18_Terminates ==
    /\ calls <= Consumed
    /\ Consumed <= Len(source)
    /\ result[1] \in {"Running", "Ok", "Err"}
    /\ Succeeded => Consumed = Len(source)

\* C18 without the outcome: every call of scan_token consumes at least one
\* character and none is given back, whatever the outcome of the scan.
C18_ConsumesEveryCall ==
    /\ [](calls <= Consumed /\ Consumed <= Len(source))
    /\ [](Succeeded => Consumed = Len(source))
    /\ [][Consumed' >= Consumed /\ (calls' # calls => Consumed' > Consumed)]_vars

\* the characters of the source that next() has not returned yet
Rest == SubSeq(source, Len(returned) + 1, Len(source))

\* C17: under any interleaving of next, peek and peek_next the buffer holds at
\* most 2 characters; the characters returned by next, then the buffer, then what
\* the source iterator has left are the source, so that peek and peek_next
\* consume nothing and next returns the source characters in order, each once;
\* peek returns the character next will return and peek_next the one after it;
\* is_at_end is true exactly when next has returned every character.
C17_BufferTransparent ==
    /\ [](Len(buf) <= 2)
    /\ [](returned \o buf \o chars = source)
    /\ []((call # <<>> /\ call[1] = "peek") =>
            call[2] = IF Rest = <<>> THEN None ELSE Some(Rest[1]))
    /\ []((call # <<>> /\ call[1] = "peek_next") =>
            call[2] = IF Len(Rest) < 2 THEN None ELSE Some(Rest[2]))
    /\ [](is_at_end(Self).ret <=> returned = source)
    /\ [][/\ call'[1] \in {"peek", "peek_next"} => returned' = returned
          /\ call'[1] = "next" =>
                IF returned = source THEN call'[2] = None /\ returned' = returned
                ELSE /\ call'[2] = Some(source[Len(returned) + 1])
                     /\ returned' = Append(returned, source[Len(returned) + 1])]_vars

\* C17 witness: next returns the second character of the source out of a
\* buffer that held 2 characters, and the third is still in the buffer.
C17_Witness ==
    /\ Len(source) >= 3
    /\ Len(returned) = 2
    /\ call = <<"next", Some(source[2])>>
    /\ buf = <<source[3]>>
    /\ source[1] # source[2]
    /\ source[2] # source[3]

\* C17 witness: the buffer holds 2 characters.
C17_BufferFull == Len(buf) = 2 /\ call[1] = "peek_next" /\ Len(returned) >= 1

\* C14: in file mode and in prompt mode, nothing is printed while a source is
\* scanned; when the scan fails nothing is printed for that source, the
\* diagnostic is reported and the process exits with code 65; once the process
\* has exited no line is read and nothing is scanned; when the scan succeeds
\* every token it returned is printed, in order, the EOF token included.
C14_FatalError ==
    /\ [][(pc = "run" /\ result[1] = "Running") => stdout' = stdout]_vars
    /\ [][(pc = "run" /\ result[1] = "Err") =>
            /\ stdout' = stdout
            /\ stderr' = Append(stderr, <<"error", result[2], result[3]>>)
            /\ exit_code' = Some(65)
            /\ pc' = "exited"]_vars
    /\ [][pc = "exited" => FALSE]_vars
    /\ [][(pc = "run" /\ result[1] = "Ok") =>
            /\ stdout' = stdout \o Printed(result[2])
            /\ stdout'[Len(stdout')] = <<"token", Token(<<"EOF">>, <<>>, line)>>
            /\ stderr' = stderr]_vars

\* C14 witness: in prompt mode, the second line fails after a token of it was
\* scanned; the prompts and the two tokens of the first line are all the output.
C14_Witness ==
    /\ argc = 1
    /\ exit_code = Some(65)
    /\ reads = 2
    /\ tokens # <<>>
    /\ Len(stdout) = 4
    /\ stdout[3][2].token_type = <<"EOF">>

\* C14 witness: in file mode, the file fails after a token of it was scanned.
C14_FileWitness ==
    /\ argc = 2
    /\ exit_code = Some(65)
    /\ tokens # <<>>
    /\ stdout = <<>>

====
